---- MODULE Spec2Model ----
(***************************************************************************)
(* Model of the IF-extraction parameter sweep of IF_experiment_cuda.py:    *)
(* find_optimal_spec_IF_parameters with its helpers set_if_fun,            *)
(* Iatsenko_style and Geodesic_curve_distance (specifications Spec and     *)
(* IoSpec), of these helpers applied on their own (FunSpec), of the main   *)
(* loop of the script (MainSpec), of the distance table of                 *)
(* ridgedistancetest.py (RidgeSpec) and of interface.py: the click        *)
(* handling of the main window (GuiSpec), sessions of file switches        *)
(* (SwitchSpec), splitFile5mins (SplitSpec) and the handlers of the zoom   *)
(* window (ZoomSpec).  Every specification runs its own part of the        *)
(* program and leaves the variables of the other parts as they are.        *)
(*                                                                         *)
(* Numbers.  Python floats are modelled by exact values:                   *)
(*   NaN, Inf, or a non-negative finite value  num/den  (root = FALSE) or  *)
(*   sqrt(num)/den  (root = TRUE, the Euclidean norm of the L2 measure).   *)
(* Frequencies are integers in Hz; hop_perc is kept in percent and         *)
(* alpha_list / beta_list in hundredths, since they are only multiplied    *)
(* by an integer and truncated (hop) or passed on (alpha, beta).           *)
(* Time samples np.linspace(0, T, n) are the fractions j/(n-1) of T, so T  *)
(* itself cancels out of every ground-truth value.                         *)
(***************************************************************************)
EXTENDS Integers, Sequences, FiniteSets, TLC

\* ------------------------------------------------------------------ bounds
\* The sweep runs over the first NWin x NHop x NWinType x NAlpha x NBeta
\* entries of the source's parameter lists.
NWin == 2
NHop == 2
NWinType == 2
NAlpha == 2
NBeta == 2
\* Number of time frames of every spectrogram (and samples of every curve).
NFrames == 2
\* Duration T of the signal file, in seconds.
FileSeconds == 1

\* durations T = 1..MaxT seconds handed to set_if_fun on its own
MaxT == 3
\* frequency sequences of up to MaxLen samples handed to a metric on its own
MaxLen == 2

\* up to MaxCurves ridge files for ridgedistancetest.py
MaxCurves == 3
\* the window handles up to MaxClicks mouse clicks, at the positions
\* 0..MaxPos (spectrogram columns, or half columns of the amplitude plot),
\* and loads or denoises a file up to MaxLoads times
MaxClicks == 4
MaxPos == 2
MaxLoads == 1
\* a session of file switches: up to MaxSwitches loads or denoisings, with up
\* to MaxSwitchClicks mouse clicks among them
MaxSwitches == 2
MaxSwitchClicks == 2

\* splitFile5mins gets recordings of 0..MaxSamples samples at sample rates of
\* 1..MaxRate samples a second
MaxSamples == 1000
MaxRate == 2

\* the zoom window handles up to MaxZoomEvents mouse presses and key
\* presses, the presses away from the markers at x = 0, 100, ...,
\* 100 * MaxZoomPos
MaxZoomEvents == 4
MaxZoomPos == 1

\* --------------------------------------------------------- parameter lists
win == <<32, 64, 128, 256, 1024, 2048, 4096>>
\* percent
hop_perc == <<10, 25, 50, 75, 90>>
win_type == <<"Hann", "Parzen", "Welch", "Hamming", "Blackman", "BlackmanHarris">>
\* hundredths
alpha_list == <<0, 25, 50, 100, 200, 400, 600, 800, 1000, 1500, 2000>>
beta_list == <<0, 25, 50, 100, 200, 400, 600, 800, 1000, 1500, 2000>>

fieldnames == <<"window_width", "incr", "window type", "alpha", "beta", "spec dim", "measure">>

nfilters == 40

\* ------------------------------------------------------------- the inputs
SignalIds == {"pure_tone", "exponential_downchirp", "exponential_upchirp",
              "linear_downchirp", "linear_upchirp", "unknown_class"}
\* optimization_metrics of the main loop, and a name that is none of them
OptMetrics == {"L2", "Iatsenko", "Curve_registration", "unknown_metric"}
\* freq_scales of the main loop
FreqScales == {"Linear", "Mel Frequency"}
\* What IF.ecurve hands back: a curve of NFrames samples that is constant at
\* 2000 Hz ("flat"), falls linearly from 2000 Hz to 500 Hz ("fall"), holds
\* NaN samples ("nan"), or something that is no triple of arrays
\* ("malformed").
EcurveOutcomes == {"flat", "fall", "nan", "malformed"}

VARIABLES
    signal_id, opt_metric, freq_scale,  \* arguments of the call
    ecurve_env,      \* the extractor's outcome as a function of the beta index
    pc,              \* "start", "loop", "after_loop", "exit"
    idx,             \* loop position <<win, hop, win_type, alpha, beta>> (indices)
    locals,          \* names of the loop body's local variables that are bound
    opt, opt_param,  \* running best measure and best-parameter dict
    log,             \* lines of find_optimal_parameters_log.csv
    result,          \* how the call ended: [kind, exc, line, value]
    reported,        \* error messages printed
    visited,         \* grid points whose loop body has been entered, in order
    nSpectrograms, nExtractions,  \* calls made to the two libraries
    computedWith,    \* metric implementations that have produced a measure
    file_exists,     \* the signal file can be read
    dir_writable     \* the log file can be created in save_dir

\* a helper function applied on its own
VARIABLES
    arg_sid, arg_T,  \* arguments of set_if_fun
    arg_s1, arg_s2,  \* the two frequency sequences handed to a metric
    called,          \* the function that has been applied ("" before)
    ret              \* what it gave: [raised, value, samples]

sweepVars == <<signal_id, opt_metric, freq_scale, ecurve_env, pc, idx, locals, opt,
               opt_param, log, result, reported, visited, nSpectrograms,
               nExtractions, computedWith, file_exists, dir_writable>>

funVars == <<arg_sid, arg_T, arg_s1, arg_s2, called, ret>>

\* ridgedistancetest.py from line 38 on
VARIABLES
    curves,          \* the n ridge curves, each of lengthmax samples
    lengthmax,       \* the length of the longest ridge
    distances,       \* the n x n table
    ridge_pc,        \* "table", "done" or "exit"
    ridge_ij,        \* the pair <<i, j>> the loops are at
    ridge_result     \* the exception that ended the script, if any

ridgeVars == <<curves, lengthmax, distances, ridge_pc, ridge_ij, ridge_result>>

\* the main loop of IF_experiment_cuda.py (lines 287-348)
VARIABLES
    dataset,         \* os.listdir(dataset_dir): [exists, names]
    main_pc,         \* "start", "loop", "done" or "exit"
    main_idx,        \* position in the four nested loops
    Test_id,         \* the Python value bound to Test_id
    dirs,            \* the directories that exist under main_results_dir
    tests,           \* the tests started: [id, dir]
    calls,           \* the calls of find_optimal_spec_IF_parameters made
    main_result      \* the exception that ended the script, if any

mainVars == <<dataset, main_pc, main_idx, Test_id, dirs, tests, calls, main_result>>

\* the window of interface.py
VARIABLES
    start_stop,        \* 0: the next click starts a segment, 1: it ends one
    start_a, start_s,  \* the start point in the two plots
    segments,          \* <<start, end, label>> of each segment
    listRectanglesa1,  \* the boxes of the amplitude plot: [x, width, facecolor]
    listRectanglesa2,  \* the boxes of the spectrogram plot, x and width in
                       \* 1/incr of a spectrogram column
    a1text,            \* the labels drawn in the amplitude plot: [x, text]
    boxid,             \* self.boxid: the box selected last, -1 before
    birds1,            \* the radio buttons: [enabled, checked]
    birdList,          \* the list box: [enabled]
    filename,          \* the sound file shown
    data_files,        \* the .data file of each sound file: [exists, text]
    clicks,            \* number of mouse clicks handled
    loads,             \* number of times a file was loaded or denoised
    last,              \* the click handled last and the box it landed in
    nSegClicks,        \* clicks inside the axes that landed in no box
    nAdded,            \* segments appended by onClick
    budget,            \* the clicks and the loads that the session is followed for
    wav_files,         \* the sound files that wavfile.read can read
    last_load,         \* the calls of loadFile: their number n and the name passed last
    kept               \* for each sound file, the segment list it had when
                       \* loadFile last left it with a list that was not empty

guiVars == <<start_stop, start_a, start_s, segments, listRectanglesa1,
             listRectanglesa2, a1text, boxid, birds1, birdList, filename,
             data_files, clicks, loads, last, nSegClicks, nAdded, budget,
             wav_files, last_load, kept>>

\* splitFile5mins of interface.py (lines 636-650)
VARIABLES
    sampleRate,      \* samples a second of the recording
    nsamples,        \* np.shape(self.audiodata)[0]
    count,           \* number of chunks written by the loop
    chunks,          \* the files written, in order: [number, from, to], the
                     \* samples from..to-1 of the recording in file number
    split_pc         \* "start", "loop" or "done"

splitVars == <<sampleRate, nsamples, count, chunks, split_pc>>

\* the zoom window of interface.py (canvas2)
VARIABLES
    Boxx,            \* self.Boxx: the end marker selected, "None" when none is
    Boxxcol,         \* self.Boxxcol: the colour to give back to it
    markers,         \* End1..End4: [x, facecolor, drawn]
    handlers,        \* the callbacks connected to canvas2, in the order of
                     \* their connection: [cid, signal, fn]
    buttonID,        \* self.buttonID
    keypress,        \* self.keypress
    next_cid,        \* the id that the next mpl_connect gives out
    ran,             \* the handlers that the last event ran: [fn, Boxx], Boxx
                     \* as the handler found it
    zoom_raised,     \* the line at which the last event's handler raised, 0
                     \* when none did
    zoom_events      \* number of events handled

zoomVars == <<Boxx, Boxxcol, markers, handlers, buttonID, keypress, next_cid, ran,
              zoom_raised, zoom_events>>

vars == <<sweepVars, funVars, ridgeVars, mainVars, guiVars, splitVars, zoomVars>>

\* what each part of the program leaves alone
nonSweepVars == <<funVars, ridgeVars, mainVars, guiVars, splitVars, zoomVars>>
nonFunVars == <<sweepVars, ridgeVars, mainVars, guiVars, splitVars, zoomVars>>
nonRidgeVars == <<sweepVars, funVars, mainVars, guiVars, splitVars, zoomVars>>
nonMainVars == <<sweepVars, funVars, ridgeVars, guiVars, splitVars, zoomVars>>
nonSplitVars == <<sweepVars, funVars, ridgeVars, mainVars, guiVars, zoomVars>>
nonZoomVars == <<sweepVars, funVars, ridgeVars, mainVars, guiVars, splitVars>>
nonGuiVars == <<sweepVars, funVars, ridgeVars, mainVars, splitVars, zoomVars>>

\* ------------------------------------------------------------ float values
NaN == [k |-> "nan", num |-> 0, den |-> 1, root |-> FALSE]
Inf == [k |-> "inf", num |-> 0, den |-> 1, root |-> FALSE]
Num(n, d, r) == [k |-> "num", num |-> n, den |-> d, root |-> r]

\* a/b < c/d for a, c >= 0 and b, d > 0, by continued fractions (no products)
RECURSIVE RatLess(_, _, _, _)
RatLess(a, b, c, d) ==
    LET q1 == a \div b
        q2 == c \div d
        r1 == a % b
        r2 == c % d
    IN  IF q1 # q2 THEN q1 < q2
        ELSE IF r2 = 0 THEN FALSE
        ELSE IF r1 = 0 THEN TRUE
        ELSE RatLess(d, r2, b, r1)

\* Python's  x < y  on floats: False as soon as one side is NaN
FloatLess(x, y) ==
    IF x.k = "nan" \/ y.k = "nan" THEN FALSE
    ELSE IF x.k = "inf" THEN FALSE
    ELSE IF y.k = "inf" THEN TRUE
    ELSE IF x.root THEN RatLess(x.num, x.den * x.den, y.num, y.den * y.den)
    ELSE RatLess(x.num, x.den, y.num, y.den)

\* numpy's  x / y  for x = sqrt(n) or n (n >= 0) and an exact y >= 0
FloatDiv(n, y, r) ==
    IF y = 0 THEN (IF n = 0 THEN NaN ELSE Inf) ELSE Num(n, y, r)

RECURSIVE SumSeq(_)
SumSeq(s) == IF s = <<>> THEN 0 ELSE Head(s) + SumSeq(Tail(s))

RECURSIVE Pow(_, _)
Pow(b, e) == IF e = 0 THEN 1 ELSE b * Pow(b, e - 1)

\* The largest v in lo..hi with v^m <= x, by bisection: the m-th root of x
\* where it is an integer (it is for the sample points of up to 3 frames).
RECURSIVE IRoot(_, _, _, _)
IRoot(x, m, lo, hi) ==
    IF lo = hi THEN lo
    ELSE LET mid == (lo + hi + 1) \div 2
         IN  IF Pow(mid, m) <= x THEN IRoot(x, m, mid, hi) ELSE IRoot(x, m, lo, mid - 1)

\* --------------------------------------------------------------- set_if_fun
RecognisedIds == {"pure_tone", "exponential_downchirp", "exponential_upchirp",
                  "linear_downchirp", "linear_upchirp"}

IfFun(law, o0, o1, T) ==
    [raised |-> "", printed |-> <<>>, law |-> law, omega_0 |-> o0, omega_1 |-> o1, T |-> T]

\* A plausible slip: the exponential up-chirp gets the end points of the
\* down-chirp.
set_if_fun_swapped(sid, T) ==
    IF sid = "pure_tone" THEN IfFun("const", 2000, 2000, T)
    ELSE IF sid = "exponential_downchirp" THEN IfFun("exp", 2000, 500, T)
    ELSE IF sid = "exponential_upchirp" THEN IfFun("exp", 2000, 500, T)
    ELSE IF sid = "linear_downchirp" THEN IfFun("lin", 2000, 500, T)
    ELSE IF sid = "linear_upchirp" THEN IfFun("lin", 500, 2000, T)
    ELSE [raised |-> "UnboundLocalError",
          printed |-> <<"ERROR SIGNAL ID NOT CONSISTENT WITH THE IF WE CAN HANDLE">>,
          law |-> "", omega_0 |-> 0, omega_1 |-> 0, T |-> T]

\* A plausible slip: the else branch falls back to the pure tone.
set_if_fun_default(sid, T) ==
    IF sid = "exponential_downchirp" THEN IfFun("exp", 2000, 500, T)
    ELSE IF sid = "exponential_upchirp" THEN IfFun("exp", 500, 2000, T)
    ELSE IF sid = "linear_downchirp" THEN IfFun("lin", 2000, 500, T)
    ELSE IF sid = "linear_upchirp" THEN IfFun("lin", 500, 2000, T)
    ELSE IfFun("const", 2000, 2000, T)

\* The outcome of set_if_fun(signal_id, T): the function returned (its law and
\* parameters), or the exception raised by "return if_fun" when no branch has
\* bound if_fun, after the message of the else branch has been printed.
set_if_fun(sid, T) ==
    IF sid = "pure_tone" THEN IfFun("const", 2000, 2000, T)
    ELSE IF sid = "exponential_downchirp" THEN IfFun("exp", 2000, 500, T)
    ELSE IF sid = "exponential_upchirp" THEN IfFun("exp", 500, 2000, T)
    ELSE IF sid = "linear_downchirp" THEN IfFun("lin", 2000, 500, T)
    ELSE IF sid = "linear_upchirp" THEN IfFun("lin", 500, 2000, T)
    ELSE [raised |-> "UnboundLocalError",
          printed |-> <<"ERROR SIGNAL ID NOT CONSISTENT WITH THE IF WE CAN HANDLE">>,
          law |-> "", omega_0 |-> 0, omega_1 |-> 0, T |-> T]

\* if_fun(t) at t = T*j/m, 0 <= j <= m:
\*   const: omega;  lin: omega_0 + c*t with c = (omega_1-omega_0)/T;
\*   exp: omega_0*alpha**t with alpha = (omega_1/omega_0)**(1/T), the value v
\*        with v^m = omega_0^(m-j) * omega_1^j.
if_fun(f, j, m) ==
    IF f.law = "const" THEN f.omega_0
    ELSE IF f.law = "lin" THEN f.omega_0 + ((f.omega_1 - f.omega_0) * j) \div m
    ELSE IRoot(Pow(f.omega_0, m - j) * Pow(f.omega_1, j), m, 0, 2000)

\* inst_freq_fun(np.linspace(0, T, n))
inst_freq(f, n) ==
    [i \in 1..n |-> if_fun(f, i - 1, IF n = 1 THEN 1 ELSE n - 1)]

\* The same values as Python computes them, in binary64.  A float here is
\* [v, off]: the value of exact arithmetic and on which side of it the
\* computed float lies (-1 below, 0 equal to it, 1 above).  c = (omega_1-omega_0)/T is
\* exact when the odd part of T divides omega_1-omega_0, and then so are c*T
\* and omega_0+c*T; alpha = (omega_1/omega_0)**(1/T) is exact when the ratio
\* has a rational T-th root, and then so is omega_0*alpha**T.  c*0 is 0.0 and
\* alpha**0 is 1.0 whatever c and alpha are.  Everywhere else the result
\* goes through a rounded c or alpha, and where it lands is left to the
\* platform's  /  and  pow  (e, one of Roundings).
Roundings == {-1, 0, 1}

RECURSIVE OddPart(_)
OddPart(n) == IF n % 2 = 0 THEN OddPart(n \div 2) ELSE n

ExactSlope(f) ==
    LET d == IF f.omega_1 > f.omega_0 THEN f.omega_1 - f.omega_0
             ELSE f.omega_0 - f.omega_1
    IN  d % OddPart(f.T) = 0

ExactAlpha(f) ==
    LET hi == IF f.omega_1 > f.omega_0 THEN f.omega_1 ELSE f.omega_0
        lo == IF f.omega_1 > f.omega_0 THEN f.omega_0 ELSE f.omega_1
        ratio == hi \div lo
        r == IRoot(ratio, f.T, 1, ratio)
    IN  hi % lo = 0 /\ Pow(r, f.T) = ratio /\ OddPart(r) = 1

if_fun_float(f, j, m, e) ==
    [v |-> if_fun(f, j, m),
     off |-> IF f.law = "const" \/ j = 0 THEN 0
             ELSE IF f.law = "lin" /\ j = m /\ ExactSlope(f) THEN 0
             ELSE IF f.law = "exp" /\ j = m /\ ExactAlpha(f) THEN 0
             ELSE e]

\* ------------------------------------------------------------------ metrics
\* A plausible slip: the samples are added where they should be subtracted.
SqDiff_of_sum(s1, s2) == SumSeq([i \in 1..Len(s1) |-> (s1[i] + s2[i]) * (s1[i] + s2[i])])

SqDiff(s1, s2) == SumSeq([i \in 1..Len(s1) |-> (s1[i] - s2[i]) * (s1[i] - s2[i])])

\* norm(tfsupp[0,:] - inst_freq, ord=2) / (shape[0] * shape[1])
L2(curve, ifreq, shape) ==
    IF curve.nan THEN NaN
    ELSE FloatDiv(SqDiff(curve.f, ifreq), shape[1] * shape[2], TRUE)

\* numpy broadcasting of a one-sample array to n samples
Broadcast(s, n) == IF Len(s) = 1 THEN [i \in 1..n |-> s[1]] ELSE s

\* np.mean((s1-s2)**2) / np.mean((s1-np.mean(s1))**2), s1 the reference.
\* With n samples in s1, S their sum and k samples in s1-s2 this is
\*   (SqDiff/k) / (Sum (n*s1[i]-S)^2 / n^3);
\* numpy divides by zero without raising (0/0 = nan, x/0 = inf) and the mean
\* of an empty array is nan, so the except branch is taken only when the two
\* shapes cannot be subtracted: different lengths, neither of them 1.
Iatsenko_style(s1, s2) ==
    IF Len(s1) # Len(s2.f) /\ Len(s1) # 1 /\ Len(s2.f) # 1 THEN NaN
    ELSE IF s2.nan \/ Len(s1) = 0 \/ Len(s2.f) = 0 THEN NaN
    ELSE LET n == Len(s1)
             k == IF n = 1 THEN Len(s2.f) ELSE n
             S == SumSeq(s1)
             dev == SumSeq([i \in 1..n |-> (n * s1[i] - S) * (n * s1[i] - S)])
         IN  FloatDiv(SqDiff(Broadcast(s1, k), Broadcast(s2.f, k)) * n * n * n, k * dev, FALSE)

\* geod_sphere of the external fdasrsf library on the two curves (x1, y1) and
\* (x2, y2).  The library is not part of the program; the model keeps of it
\* that the distance is a non-negative number, zero on identical curves, and
\* lets it count the samples where the curves differ.
Geodesic_curve_distance(x1, y1, x2, y2) ==
    IF y1.nan THEN NaN
    ELSE Num(Cardinality({i \in 1..Len(x1) : y1.f[i] # y2[i]}), 1, FALSE)

\* ---------------------------------------------------------- collaborators
\* np.shape(TFR) after TFR = sp.spectrogram(...).T : frequency bins x frames
spectrogram(window_width, incr, window_type, sgScale) ==
    <<IF sgScale = "Linear" THEN window_width \div 2 ELSE nfilters, NFrames>>

\* tfsupp[0, :] of IF.ecurve(TFR, freqarr, wopt) for an extractor outcome
ecurve(outcome, n) ==
    IF outcome = "flat" THEN [nan |-> FALSE, f |-> [i \in 1..n |-> 2000]]
    ELSE IF outcome = "fall"
         THEN [nan |-> FALSE,
               f |-> [i \in 1..n |-> 2000 - (1500 * (i - 1)) \div (IF n = 1 THEN 1 ELSE n - 1)]]
    ELSE [nan |-> TRUE, f |-> [i \in 1..n |-> 0]]

\* ------------------------------------------------------------- the files
\* Line 209: open(csv_filename, 'w') creates the log file in save_dir, or
\* raises OSError when it cannot.
open_unchecked(writable) == ""

open(writable) == IF writable THEN "" ELSE "OSError"

\* Line 224: sp.readWav(signal_path) reads the signal, or raises when there
\* is no such file.
readWav(exists) == IF exists THEN "" ELSE "FileNotFoundError"

\* ------------------------------------------------------------ the log file
\* A line of the csv file: the header with the field names, or a data row
\* holding for every field name the value written, <<>> where DictWriter fills
\* in its restval ''.
HeaderLine == [kind |-> "header", cells |-> fieldnames]

\* writer.writerow({'window_width':, 'incr':, 'spec dim':, 'measure':})
DataLine(window_width, incr, spec_dim, measure) ==
    [kind |-> "data",
     cells |-> [c \in {fieldnames[i] : i \in 1..Len(fieldnames)} |->
                  IF c = "window_width" THEN <<window_width>>
                  ELSE IF c = "incr" THEN <<incr>>
                  ELSE IF c = "spec dim" THEN <<spec_dim>>
                  ELSE IF c = "measure" THEN <<measure>>
                  ELSE <<>>]]

\* A plausible slip: the row is written with the file opened in mode 'w'.
writerow_truncating(file, line) == <<line>>

\* with open(csv_filename, 'a') ... writer.writerow(line)
writerow(file, line) == Append(file, line)

\* with open(csv_filename, 'w') ... writer.writeheader()
writeheader(file) == <<HeaderLine>>

\* ---------------------------------------------------------- the best record
\* A plausible slip: "not (opt <= measure2check)", which a NaN passes.
IsBetterNotWorse(measure2check, best) ==
    measure2check.k = "nan" \/ best.k = "nan" \/ FloatLess(measure2check, best)

\* A plausible slip: <= in place of <.
IsBetterOrEqual(measure2check, best) ==
    FloatLess(measure2check, best)
    \/ (measure2check.k # "nan" /\ best.k # "nan" /\ ~FloatLess(best, measure2check))

\* if measure2check < opt
IsBetter(measure2check, best) == FloatLess(measure2check, best)

\* opt_param["win_len"] = window_width; opt_param["hop"] = incr
\* (a dict value is <<>> for the empty list and <<v>> for the number v)
UpdateOptParam(d, window_width, incr) ==
    [key \in DOMAIN d \cup {"win_len", "hop"} |->
        IF key = "win_len" THEN <<window_width>>
        ELSE IF key = "hop" THEN <<incr>>
        ELSE d[key]]

\* ------------------------------------------------------------ the loop nest
Dims == <<NWin, NHop, NWinType, NAlpha, NBeta>>

\* the values of the loop variables win_len, hop, window_type, alpha, beta
GridPoint(i) ==
    <<win[i[1]], hop_perc[i[2]], win_type[i[3]], alpha_list[i[4]], beta_list[i[5]]>>

\* the position after i in the five nested for loops (beta innermost)
RECURSIVE NextIdx(_, _)
NextIdx(i, d) ==
    IF d = 0 THEN i
    ELSE IF i[d] < Dims[d] THEN [i EXCEPT ![d] = i[d] + 1]
    ELSE NextIdx([i EXCEPT ![d] = 1], d - 1)

LastPoint(i) == \A d \in 1..5 : i[d] = Dims[d]

\* the body just run was the last one of a "for window_type" loop
EndOfHopBody(i) == \A d \in 3..5 : i[d] = Dims[d]

\* del TFR, fstep, freqarr, wopt, tfsupp, window_width, incr, sp, IF,
\*     measure2check : the names are unbound from left to right, and deleting
\* a name that is not bound raises.
DelNames == <<"TFR", "fstep", "freqarr", "wopt", "tfsupp", "window_width", "incr",
              "sp", "IF", "measure2check">>

RECURSIVE Del(_, _)
Del(names, bound) ==
    IF names = <<>> THEN [raised |-> "", locals |-> bound]
    ELSE IF Head(names) \notin bound THEN [raised |-> "UnboundLocalError", locals |-> bound]
    ELSE Del(Tail(names), bound \ {Head(names)})

\* the branch of "if opt_metric == ..." that computes measure2check
MetricBranch(name) ==
    IF name = "L2" THEN "L2"
    ELSE IF name = "Iatsenko" THEN "Iatsenko"
    ELSE "Geodesic"

\* the call ends with exception exc raised at the given source line
Raise(exc, line) == [kind |-> "raise", exc |-> exc, line |-> line, value |-> <<>>]

\* -------------------------------------------------------------------- Init
\* the arguments and the environment of one call of the sweep
SweepArgs ==
    /\ signal_id \in SignalIds
    /\ opt_metric \in OptMetrics
    /\ freq_scale \in FreqScales
    /\ ecurve_env \in [1..NBeta -> EcurveOutcomes]

\* no sweep is called
SweepIdle ==
    /\ signal_id = "pure_tone"
    /\ opt_metric = "L2"
    /\ freq_scale = "Linear"
    /\ ecurve_env = [b \in 1..NBeta |-> "flat"]
    /\ file_exists = TRUE
    /\ dir_writable = TRUE

SweepStart ==
    /\ pc = "start"
    /\ idx = <<1, 1, 1, 1, 1>>
    /\ locals = {}
    /\ opt = Inf
    /\ opt_param = [key \in {"window_lenght", "hop", "window_type", "alpha", "beta"} |-> <<>>]
    /\ log = <<>>
    /\ result = [kind |-> "none", exc |-> "", line |-> 0, value |-> <<>>]
    /\ reported = <<>>
    /\ visited = <<>>
    /\ nSpectrograms = 0
    /\ nExtractions = 0
    /\ computedWith = {}

\* no helper function is applied on its own
FunIdle ==
    /\ arg_sid = "pure_tone"
    /\ arg_T = 1
    /\ arg_s1 = <<>>
    /\ arg_s2 = <<>>
    /\ called = ""
    /\ ret = [raised |-> "", value |-> NaN, samples |-> <<>>]

\* ridgedistancetest.py is not run
RidgeIdle ==
    /\ curves = <<>>
    /\ lengthmax = 0
    /\ distances = <<>>
    /\ ridge_pc = "done"
    /\ ridge_ij = <<1, 2>>
    /\ ridge_result = [kind |-> "none", exc |-> "", line |-> 0, value |-> <<>>]

\* Python values that carry their type
PyInt(v) == [type |-> "int", v |-> v]
PyStr(pieces) == [type |-> "str", v |-> pieces]

\* the main loop is not run
MainIdle ==
    /\ dataset = [exists |-> FALSE, names |-> <<>>]
    /\ main_pc = "exit"
    /\ main_idx = <<1, 1, 1, 1>>
    /\ Test_id = PyInt(0)
    /\ dirs = {}
    /\ tests = <<>>
    /\ calls = <<>>
    /\ main_result = [kind |-> "none", exc |-> "", line |-> 0, value |-> <<>>]

\* the sound files that can be opened
FileNames == {"ruru.wav", "other.wav"}

\* Lines 77-107 and 227-248: the window as __init__ and createFrame make it,
\* before a file is loaded
Constructed ==
    /\ start_stop = 0
    /\ start_a = 0
    /\ start_s = 0
    /\ boxid = -1
    /\ birds1 = [enabled |-> FALSE, checked |-> ""]
    /\ birdList = [enabled |-> FALSE]
    /\ clicks = 0
    /\ loads = 0
    /\ last = [inaxes |-> "none", xdata |-> 0, boxid |-> -1]
    /\ nSegClicks = 0
    /\ nAdded = 0
    /\ last_load = [n |-> 0, name |-> ""]
    /\ kept = [f \in FileNames |-> <<>>]

\* no window is open
GuiIdle ==
    /\ Constructed
    /\ budget = [clicks |-> 0, loads |-> 0]
    /\ wav_files = [f \in FileNames |-> TRUE]
    /\ segments = <<>>
    /\ listRectanglesa1 = <<>>
    /\ listRectanglesa2 = <<>>
    /\ a1text = <<>>
    /\ filename = ""
    /\ data_files = [f \in FileNames |-> [exists |-> FALSE, text |-> <<>>]]

\* no file is being split
SplitIdle ==
    /\ sampleRate = 1
    /\ nsamples = 0
    /\ count = 0
    /\ chunks = <<>>
    /\ split_pc = "done"

\* the end markers of the zoom window
Markers == {"End1", "End2", "End3", "End4"}

\* Lines 87 and 265: no segment has been shown in the zoom window
ZoomIdle ==
    /\ Boxx = "None"
    /\ Boxxcol = ""
    /\ markers = [m \in Markers |-> [x |-> 0, facecolor |-> "", drawn |-> FALSE]]
    /\ handlers = <<[cid |-> 1, signal |-> "pick_event", fn |-> "chooseEnd"]>>
    /\ buttonID = 0
    /\ keypress = 0
    /\ next_cid = 2
    /\ ran = <<>>
    /\ zoom_raised = 0
    /\ zoom_events = 0

\* the sweep is not called
SweepRest == SweepIdle /\ SweepStart

\* the sweep, called with a readable signal file and a writable save_dir
Init ==
    /\ SweepArgs
    /\ SweepStart
    /\ file_exists = TRUE
    /\ dir_writable = TRUE
    /\ FunIdle
    /\ RidgeIdle
    /\ MainIdle
    /\ GuiIdle
    /\ SplitIdle
    /\ ZoomIdle

\* ------------------------------------------------------------------ actions
\* Lines 193-211: the parameter lists, opt, opt_param, and the header of the
\* log written to a file opened in mode 'w'.
OpenLog ==
    /\ pc = "start"
    /\ IF open(dir_writable) # ""
       THEN \* line 209: the file cannot be created
            /\ result' = Raise(open(dir_writable), 209)
            /\ pc' = "exit"
            /\ log' = log
       ELSE /\ log' = writeheader(log)
            /\ pc' = "loop"
            /\ result' = result
    /\ UNCHANGED <<signal_id, opt_metric, freq_scale, ecurve_env, idx, locals, opt,
                   opt_param, reported, visited, nSpectrograms,
                   nExtractions, computedWith, file_exists, dir_writable>>
    /\ UNCHANGED nonSweepVars

\* Lines 213-269: one pass through the body of the innermost loop, with the
\* del statement that follows the "for window_type" loop when this pass ends
\* it, up to the next loop test.
EvalGridPoint ==
    /\ pc = "loop"
    /\ LET window_width == win[idx[1]]
           incr == (win[idx[1]] * hop_perc[idx[2]]) \div 100
           window_type == win_type[idx[3]]
           shape == spectrogram(window_width, incr, window_type, freq_scale)
           outcome == ecurve_env[idx[5]]
           tfsupp == ecurve(outcome, shape[2])
           n == Len(tfsupp.f)
           fn == set_if_fun(signal_id, FileSeconds)
           ifreq == inst_freq(fn, n)
           t_support == [i \in 1..n |-> i - 1]
           branch == MetricBranch(opt_metric)
           measure2check ==
               IF branch = "L2" THEN L2(tfsupp, ifreq, shape)
               ELSE IF branch = "Iatsenko" THEN Iatsenko_style(ifreq, tfsupp)
               ELSE Geodesic_curve_distance(t_support, tfsupp, t_support, ifreq)
           boundAtEcurve ==
               locals \cup {"window_width", "incr", "IF", "sp", "TFR", "freqarr", "wopt"}
                      \cup (IF freq_scale = "Linear" THEN {"fstep"} ELSE {})
           boundAtEnd == boundAtEcurve \cup {"tfsupp", "measure2check"}
           deleted == IF EndOfHopBody(idx) THEN Del(DelNames, boundAtEnd)
                      ELSE [raised |-> "", locals |-> boundAtEnd]
       IN  /\ visited' = Append(visited, GridPoint(idx))
           /\ nSpectrograms' = IF readWav(file_exists) # "" THEN nSpectrograms
                                ELSE nSpectrograms + 1
           /\ nExtractions' = IF readWav(file_exists) # "" THEN nExtractions
                               ELSE nExtractions + 1
           /\ IF readWav(file_exists) # ""
              THEN \* line 224: the signal file cannot be read
                   /\ result' = Raise(readWav(file_exists), 224)
                   /\ pc' = "exit"
                   /\ locals' = locals \cup {"window_width", "incr", "IF", "sp"}
                   /\ UNCHANGED <<idx, opt, opt_param, log, reported, computedWith>>
              ELSE IF outcome = "malformed"
              THEN \* line 242: the result cannot be unpacked
                   /\ result' = Raise("ValueError", 242)
                   /\ pc' = "exit"
                   /\ locals' = boundAtEcurve
                   /\ UNCHANGED <<idx, opt, opt_param, log, reported, computedWith>>
              ELSE IF fn.raised # ""
              THEN \* line 245: set_if_fun prints and raises
                   /\ result' = Raise(fn.raised, 169)
                   /\ reported' = reported \o fn.printed
                   /\ pc' = "exit"
                   /\ locals' = boundAtEcurve \cup {"tfsupp"}
                   /\ UNCHANGED <<idx, opt, opt_param, log, computedWith>>
              ELSE /\ computedWith' = computedWith \cup {branch}
                   /\ log' = writerow(log, DataLine(window_width, incr,
                                                    shape[1] * shape[2], measure2check))
                   /\ IF IsBetter(measure2check, opt)
                      THEN /\ opt' = measure2check
                           /\ opt_param' = UpdateOptParam(opt_param, window_width, incr)
                      ELSE UNCHANGED <<opt, opt_param>>
                   /\ locals' = deleted.locals
                   /\ IF deleted.raised # ""
                      THEN /\ result' = Raise(deleted.raised, 269)
                           /\ pc' = "exit"
                           /\ idx' = idx
                      ELSE /\ result' = result
                           /\ pc' = IF LastPoint(idx) THEN "after_loop" ELSE "loop"
                           /\ idx' = IF LastPoint(idx) THEN idx ELSE NextIdx(idx, 5)
                   /\ UNCHANGED reported
    /\ UNCHANGED <<signal_id, opt_metric, freq_scale, ecurve_env, file_exists,
                   dir_writable>>
    /\ UNCHANGED nonSweepVars

\* Lines 271-274: opt_param["win_len"] and opt_param["hop"] are read back,
\* then the return statement evaluates window_length_opt, a name that is
\* bound nowhere.
Finish ==
    /\ pc = "after_loop"
    /\ result' = IF "win_len" \notin DOMAIN opt_param THEN Raise("KeyError", 272)
                 ELSE Raise("NameError", 274)
    /\ pc' = "exit"
    /\ UNCHANGED <<signal_id, opt_metric, freq_scale, ecurve_env, idx, locals, opt,
                   opt_param, log, reported, visited, nSpectrograms,
                   nExtractions, computedWith, file_exists, dir_writable>>
    /\ UNCHANGED nonSweepVars

Next == OpenLog \/ EvalGridPoint \/ Finish

Spec == Init /\ [][Next]_vars

\* ------------------------------------------------------- derived notions
GridSize == NWin * NHop * NWinType * NAlpha * NBeta

\* the grid in nested-loop order, from position i on
RECURSIVE GridFrom(_)
GridFrom(i) ==
    IF LastPoint(i) THEN <<GridPoint(i)>>
    ELSE <<GridPoint(i)>> \o GridFrom(NextIdx(i, 5))

FullGrid == GridFrom(<<1, 1, 1, 1, 1>>)

DataRows == {i \in 1..Len(log) : log[i].kind = "data"}
MeasureAt(i) == log[i].cells["measure"][1]

\* both for loops have run to their end
LoopsCompleted ==
    \/ pc = "after_loop"
    \/ pc = "exit" /\ result.line \in {272, 274}

\* the extractor's outcome at a visited grid point
OutcomeAt(point) == ecurve_env[CHOOSE b \in 1..NBeta : beta_list[b] = point[5]]

\* two floats that are numbers and neither less than the other
SameValue(x, y) ==
    x.k # "nan" /\ y.k # "nan" /\ ~FloatLess(x, y) /\ ~FloatLess(y, x)

\* ------------------------------------------------------------------ claims

\* C1: when a sweep completes, the call returns the 5-tuple (window length,
\* hop, window type, alpha, beta) of the grid point whose logged measure is
\* the minimum over all grid points of the sweep.
C1_ReturnsGridPointOfMinimalMeasure ==
    (pc = "exit" /\ Len(visited) = GridSize /\ Len(log) = 1 + GridSize)
        => /\ result.kind = "return"
           /\ \E i \in 1..GridSize :
                /\ result.value = visited[i]
                /\ \A j \in 1..GridSize :
                     MeasureAt(j + 1).k = "nan" \/ ~FloatLess(MeasureAt(j + 1), MeasureAt(i + 1))

\* C2: for every frequency scale, with a recognised signal class and an
\* extractor that hands back curves, the call ends only after each
\* combination of win x hop_perc x win_type x alpha_list x beta_list has been
\* evaluated exactly once, in nested-loop order.
C2_EveryCombinationOnceInOrder ==
    (/\ pc = "exit"
     /\ signal_id \in RecognisedIds
     /\ \A b \in 1..NBeta : ecurve_env[b] # "malformed")
        => visited = FullGrid

\* the log is one header line followed by one data row per grid point whose
\* body ran to its end, GridSize of them once the loops have completed
LogShape ==
    /\ pc # "start" => (Len(log) >= 1 /\ log[1].kind = "header")
    /\ \A i \in 2..Len(log) :
         /\ log[i].kind = "data"
         /\ i - 1 <= Len(visited)
         /\ log[i].cells["window_width"] = <<visited[i - 1][1]>>
    /\ LoopsCompleted => Len(log) = 1 + GridSize

\* C3: after a completed sweep the log holds exactly one header line followed
\* by exactly one data row per grid point; the header is written once, before
\* the first grid point is evaluated, and the file only ever grows by data
\* rows appended at its end.
C3_HeaderOnceRowsAppended ==
    /\ []LogShape
    /\ [][\/ log' = log
          \/ pc = "start" /\ log = <<>> /\ log' = <<HeaderLine>>
          \/ /\ Len(log') = Len(log) + 1
             /\ SubSeq(log', 1, Len(log)) = log
             /\ log'[Len(log')].kind = "data"]_vars

C3_Witness == LoopsCompleted /\ Len(log) = 1 + GridSize /\ GridSize > 1

\* C4: set_if_fun called with a signal_id that is none of the five recognised
\* ones reports the unrecognised signal class, raises and returns no
\* function; for each of the five recognised identifiers it returns a
\* function without error.  In the sweep the call is reached at the first
\* grid point whose curve could be unpacked.
C4_SetIfFunRejectsUnknownIds ==
    LET f == set_if_fun(signal_id, FileSeconds)
        reached == Len(visited) > 0 /\ OutcomeAt(visited[1]) # "malformed"
    IN  /\ signal_id \in RecognisedIds =>
              /\ f.raised = "" /\ f.printed = <<>>
              /\ f.law \in {"const", "exp", "lin"}
              /\ reported = <<>>
              /\ result.line # 169
        /\ signal_id \notin RecognisedIds =>
              /\ f.raised # "" /\ f.law = ""
              /\ f.printed = <<"ERROR SIGNAL ID NOT CONSISTENT WITH THE IF WE CAN HANDLE">>
              /\ reached => /\ result.kind = "raise" /\ result.line = 169
                            /\ reported = f.printed
                            /\ computedWith = {}

C4_Witness ==
    /\ signal_id = "unknown_class"
    /\ result.kind = "raise" /\ result.line = 169
    /\ reported # <<>>

\* C5: when the signal-class identifier is not recognised, the call fails
\* before any grid point is evaluated: at the moment of failure no spectrogram
\* has been computed, no IF curve has been extracted and the log holds no
\* data row.
C5_UnknownIdFailsBeforeAnyGridPoint ==
    (signal_id \notin RecognisedIds /\ result.kind = "raise" /\ result.line = 169)
        => /\ nSpectrograms = 0
           /\ nExtractions = 0
           /\ DataRows = {}

\* optimization_metrics of the main loop
RecognisedMetrics == {"L2", "Iatsenko", "Curve_registration"}

\* C6: an optimisation-metric name other than the three recognised ones is
\* fatal: no grid point is evaluated and logged, and no measure is computed
\* with some other metric in its place.
C6_UnknownMetricIsFatal ==
    opt_metric \notin RecognisedMetrics => (computedWith = {} /\ DataRows = {})

\* C7: if the evaluation of one grid point fails (the extractor hands back
\* something malformed), the sweep does not abort: the grid point is in the
\* log with measure NaN and the call has not ended with that failure.
C7_FailedPointIsLoggedAndSweepGoesOn ==
    \A i \in 1..Len(visited) :
        OutcomeAt(visited[i]) = "malformed" =>
            /\ result.kind # "raise"
            /\ i + 1 <= Len(log)
            /\ MeasureAt(i + 1).k = "nan"

\* C8: a grid point whose measure is NaN never becomes the best record: the
\* step that logs a NaN measure leaves opt and opt_param unchanged, whatever
\* opt is.
C8_NaNNeverBecomesBest ==
    [][(Len(log') = Len(log) + 1 /\ Len(log) >= 1 /\ MeasureAt(Len(log))'.k = "nan")
          => (opt' = opt /\ opt_param' = opt_param)]_vars

\* a NaN row met the initial infinity, and a later NaN row met a finite opt
C8_Witness ==
    /\ Len(log) >= 4
    /\ MeasureAt(2).k = "nan"
    /\ MeasureAt(3).k = "num"
    /\ MeasureAt(4).k = "nan"
    /\ opt.k = "num"

\* the first data row, in enumeration order, whose measure has the value of opt
FirstMinimalRow == CHOOSE i \in DataRows :
    /\ SameValue(MeasureAt(i), opt)
    /\ \A j \in DataRows : j < i => ~SameValue(MeasureAt(j), opt)

\* opt is the smallest non-NaN measure logged so far (infinity when there is
\* none) and the best record holds the window width and hop of the first row
\* that has it
OptIsMinimumSoFar ==
    /\ \A i \in DataRows : ~FloatLess(MeasureAt(i), opt)
    /\ opt.k # "nan"
    /\ opt.k = "inf" => "win_len" \notin DOMAIN opt_param
    /\ opt.k = "num" =>
          /\ \E i \in DataRows : SameValue(MeasureAt(i), opt)
          /\ opt = MeasureAt(FirstMinimalRow)
          /\ opt_param["win_len"] = log[FirstMinimalRow].cells["window_width"]
          /\ opt_param["hop"] = log[FirstMinimalRow].cells["incr"]

\* C9: opt is a running minimum: after each grid point, opt is the smallest
\* non-NaN measure logged so far (infinity when there is none), and the best
\* record holds the window width and hop of the first row, in enumeration
\* order, that has this measure; opt never increases, and the best record
\* is replaced only by a strictly smaller measure.
C9_RunningMinimum ==
    /\ []OptIsMinimumSoFar
    /\ [][/\ ~FloatLess(opt, opt')
          /\ (opt' # opt \/ opt_param' # opt_param) => FloatLess(opt', opt)]_vars

\* two rows with different hops tie for the minimum, after a row with a
\* larger measure
C9_Witness ==
    /\ opt.k = "num"
    /\ \E i, j \in DataRows :
          /\ i < j
          /\ SameValue(MeasureAt(i), opt) /\ SameValue(MeasureAt(j), opt)
          /\ log[i].cells["incr"] # log[j].cells["incr"]
    /\ \E i \in DataRows : i < FirstMinimalRow /\ FloatLess(opt, MeasureAt(i))

\* C10: every data row of the log records all seven columns of its grid
\* point; none leaves window type, alpha or beta empty.
C10_RowsHoldAllSevenColumns ==
    \A i \in DataRows :
        \A c \in 1..Len(fieldnames) : log[i].cells[fieldnames[c]] # <<>>


\* ------------------------------------------- the helper functions on their own
FreqVals == {500, 2000}

FreqSeqs == UNION {[1..n -> FreqVals] : n \in 0..MaxLen}

\* np.linspace(0, T, n): a returned if_fun is read at n instants, one per
\* frame as in line 246
SamplePoints == NFrames

FunInit ==
    /\ arg_sid \in SignalIds
    /\ arg_T \in 1..MaxT
    /\ arg_s1 \in FreqSeqs
    /\ arg_s2 \in FreqSeqs
    /\ called = ""
    /\ ret = [raised |-> "", value |-> NaN, samples |-> <<>>]
    /\ SweepRest
    /\ RidgeIdle
    /\ MainIdle
    /\ GuiIdle
    /\ SplitIdle
    /\ ZoomIdle

\* Lines 135-169 and 246: set_if_fun(signal_id, T) and the function it
\* returns, read at the n instants t = T*j/(n-1), j = 0..n-1.
ApplySetIfFun ==
    /\ called = ""
    /\ called' = "set_if_fun"
    /\ \E e \in Roundings :
         LET f == set_if_fun(arg_sid, arg_T)
             n == SamplePoints
             m == IF n = 1 THEN 1 ELSE n - 1
         IN  ret' = [raised |-> f.raised, value |-> NaN,
                     samples |-> IF f.raised # "" THEN <<>>
                                 ELSE [i \in 1..n |-> if_fun_float(f, i - 1, m, e)]]
    /\ UNCHANGED <<arg_sid, arg_T, arg_s1, arg_s2>>
    /\ UNCHANGED nonFunVars

\* Line 249: the L2 measure of two sequences of one length, over the cells
\* of a spectrogram with one frame per sample.
ApplyL2 ==
    /\ called = ""
    /\ Len(arg_s1) = Len(arg_s2)
    /\ called' = "L2"
    /\ ret' = [raised |-> "",
               value |-> L2([nan |-> FALSE, f |-> arg_s1], arg_s2,
                            <<win[1] \div 2, Len(arg_s1)>>),
               samples |-> <<>>]
    /\ UNCHANGED <<arg_sid, arg_T, arg_s1, arg_s2>>
    /\ UNCHANGED nonFunVars

\* Lines 98-106: Iatsenko_style(s1, s2), s1 the reference.
ApplyIatsenko ==
    /\ called = ""
    /\ called' = "Iatsenko_style"
    /\ ret' = [raised |-> "",
               value |-> Iatsenko_style(arg_s1, [nan |-> FALSE, f |-> arg_s2]),
               samples |-> <<>>]
    /\ UNCHANGED <<arg_sid, arg_T, arg_s1, arg_s2>>
    /\ UNCHANGED nonFunVars

FunNext == ApplySetIfFun \/ ApplyL2 \/ ApplyIatsenko

FunSpec == FunInit /\ [][FunNext]_vars

\* the configured frequencies at t = 0 and at t = T
StartFrequency(sid) ==
    IF sid \in {"pure_tone", "exponential_downchirp", "linear_downchirp"} THEN 2000 ELSE 500

EndFrequency(sid) ==
    IF sid \in {"pure_tone", "exponential_upchirp", "linear_upchirp"} THEN 2000 ELSE 500

IfFunReturned == called = "set_if_fun" /\ arg_sid \in RecognisedIds

FirstSample == ret.samples[1]
LastSample == ret.samples[Len(ret.samples)]

NonZeroVariance(s) == \E i, j \in 1..Len(s) : s[i] # s[j]

\* a float that is exactly zero
IsZero(x) == x.k = "num" /\ x.num = 0

\* C12: the L2 measure of a frequency sequence s against itself is exactly
\* 0 (over a spectrogram that has cells), and Iatsenko_style(s, s) is
\* exactly 0 whenever s has non-zero variance.
C12_SelfDistanceIsZero ==
    /\ (called = "L2" /\ arg_s1 = arg_s2 /\ Len(arg_s1) > 0)
           => ret.raised = "" /\ IsZero(ret.value)
    /\ (called = "Iatsenko_style" /\ arg_s1 = arg_s2 /\ NonZeroVariance(arg_s1))
           => ret.raised = "" /\ IsZero(ret.value)

C12_Witness ==
    /\ called = "Iatsenko_style"
    /\ arg_s1 = arg_s2
    /\ NonZeroVariance(arg_s1)
    /\ IsZero(ret.value)

\* C13: Iatsenko_style(s1, s2) returns NaN and raises no exception whenever
\* the reference s1 has zero variance, for every s2 of the same length,
\* those that differ from s1 included.
C13_ZeroVarianceGivesNaN ==
    (called = "Iatsenko_style" /\ ~NonZeroVariance(arg_s1) /\ Len(arg_s1) = Len(arg_s2))
        => ret.raised = "" /\ ret.value = NaN

\* ----------------------------------------- the sweep and its files
\* the sweep, called with any signal path and any save_dir
IoInit ==
    /\ SweepArgs
    /\ SweepStart
    /\ file_exists \in BOOLEAN
    /\ dir_writable \in BOOLEAN
    /\ FunIdle
    /\ RidgeIdle
    /\ MainIdle
    /\ GuiIdle
    /\ SplitIdle
    /\ ZoomIdle

IoSpec == IoInit /\ [][Next]_vars

\* C14: when the signal file is missing or the log directory is not
\* writable, the call ends in an error before any grid point is processed:
\* no spectrogram is computed, no data row is appended to the log and the
\* best record is never updated.
C14_IoFailureAbortsBeforeAnyGridPoint ==
    (~file_exists \/ ~dir_writable) =>
        /\ DataRows = {}
        /\ opt = Inf
        /\ "win_len" \notin DOMAIN opt_param
        /\ nSpectrograms = 0 /\ nExtractions = 0
        /\ Len(visited) <= 1
        /\ pc \in {"start", "loop", "exit"}
        /\ pc = "exit" => result.kind = "raise" /\ result.line \in {209, 224}
        /\ ~dir_writable => log = <<>>

C14_Witness ==
    /\ ~file_exists
    /\ dir_writable
    /\ pc = "exit"
    /\ result = Raise("FileNotFoundError", 224)
    /\ log = <<HeaderLine>>

\* ------------------------------------------------- ridgedistancetest.py
\* np.arange(53) of line 42
ArangeLen == 53

\* The rows of curves after lines 30-37: a ridge as long as the longest
\* one, or a shorter ridge padded with zeros.
CurveKinds == {"flat", "rise", "padded"}

Curve(kind, len) ==
    IF kind = "flat" THEN [k \in 1..len |-> 1000]
    ELSE IF kind = "rise" THEN [k \in 1..len |-> 1000 + k]
    ELSE [k \in 1..len |-> IF 2 * k <= len THEN 1000 ELSE 0]

\* np.vstack((np.arange(lengthmax), curves[i,:]))
vstack(curve) == [x |-> [k \in 1..Len(curve) |-> k - 1], y |-> curve]

\* d of  d, _, _ = geod_sphere(beta1, beta2)  of the module geodesic_copy:
\* a non-negative number, zero on identical curves, the same in both
\* directions; the model counts the points where the curves differ.
geod_sphere(beta1, beta2) ==
    Cardinality({k \in 1..Len(beta1.y) : beta1.y[k] # beta2.y[k] \/ beta1.x[k] # beta2.x[k]})

\* np.zeros((n, n))
zeros(n) == [i \in 1..n |-> [j \in 1..n |-> 0]]

\* A plausible slip: only the entry above the diagonal is written.
SetEntries_upper(table, i, j, d) == [table EXCEPT ![i][j] = d]

\* Lines 44-45: distances[i, j] = d; distances[j, i] = d
SetEntries(table, i, j, d) == [table EXCEPT ![i][j] = d, ![j][i] = d]

\* for i in range(0,n): for j in range(i+1, n): the pair after <<i, j>>
NextPair(ij, n) == IF ij[2] < n THEN <<ij[1], ij[2] + 1>> ELSE <<ij[1] + 1, ij[1] + 2>>

PairsLeft == ridge_ij[2] <= Len(curves)

RidgeInit ==
    /\ \E n \in 0..MaxCurves : \E kinds \in [1..n -> CurveKinds] :
           /\ lengthmax \in (IF n = 0 THEN {0} ELSE {MaxLen, ArangeLen})
           /\ curves = [i \in 1..n |-> Curve(kinds[i], lengthmax)]
    /\ distances = zeros(Len(curves))
    /\ ridge_pc = "table"
    /\ ridge_ij = <<1, 2>>
    /\ ridge_result = [kind |-> "none", exc |-> "", line |-> 0, value |-> <<>>]
    /\ SweepRest
    /\ FunIdle
    /\ MainIdle
    /\ GuiIdle
    /\ SplitIdle
    /\ ZoomIdle

\* Lines 41-45: one pass through the body of the inner loop.  The print of
\* line 42 stacks a row of curves on np.arange(53), which raises ValueError
\* unless the rows have 53 samples.
PairDistance ==
    /\ ridge_pc = "table"
    /\ PairsLeft
    /\ IF lengthmax # ArangeLen
       THEN /\ ridge_result' = Raise("ValueError", 42)
            /\ ridge_pc' = "exit"
            /\ UNCHANGED <<distances, ridge_ij>>
       ELSE LET i == ridge_ij[1]
                j == ridge_ij[2]
                d == geod_sphere(vstack(curves[i]), vstack(curves[j]))
            IN  /\ distances' = SetEntries(distances, i, j, d)
                /\ ridge_ij' = NextPair(ridge_ij, Len(curves))
                /\ UNCHANGED <<ridge_pc, ridge_result>>
    /\ UNCHANGED <<curves, lengthmax>>
    /\ UNCHANGED nonRidgeVars

\* Lines 47-53: the loops are over; the table is printed and saved.
TableDone ==
    /\ ridge_pc = "table"
    /\ ~PairsLeft
    /\ ridge_pc' = "done"
    /\ UNCHANGED <<curves, lengthmax, distances, ridge_ij, ridge_result>>
    /\ UNCHANGED nonRidgeVars

RidgeNext == PairDistance \/ TableDone

RidgeSpec == RidgeInit /\ [][RidgeNext]_vars

HoldsGridPoint(d, g) ==
    /\ \E key \in {"window_lenght", "win_len"} \cap DOMAIN d : d[key] = <<g[1]>>
    /\ d["hop"] \in {<<g[2]>>, <<(g[1] * g[2]) \div 100>>}
    /\ Len(d["window_type"]) = 1 /\ d["window_type"][1] = g[3]
    /\ Len(d["alpha"]) = 1 /\ d["alpha"][1] = g[4]
    /\ Len(d["beta"]) = 1 /\ d["beta"][1] = g[5]

\* C16: after every grid point the best record holds all five parameters
\* (window length, hop, window type, alpha, beta) of one single grid point,
\* one whose measure equals opt, and what the call returns at the end is read
\* from fields that the comparison branch has assigned.
C16_BestRecordHoldsAllFiveParameters ==
    /\ opt.k = "num" =>
           \E i \in DataRows :
               /\ SameValue(MeasureAt(i), opt)
               /\ HoldsGridPoint(opt_param, visited[i - 1])
    /\ (pc = "exit" /\ LoopsCompleted /\ opt.k = "num") =>
           /\ result.kind = "return"
           /\ \E g \in {visited[i] : i \in 1..Len(visited)} :
                  HoldsGridPoint(opt_param, g) /\ result.value = g

\* ---------------------------------------------------------- the main loop
\* Lines 297-303
spectrogram_types == <<"Standard", "Reassigned", "Multi-tapered">>
freq_scales == <<"Linear", "Mel Frequency">>
spec_normalizations == <<"Standard", "Log", "Box-Cox", "Sigmoid", "PCEN">>
optimization_metrics == <<"L2", "Iatsenko", "Curve_registration">>

main_results_dir == PyStr(<<"/am/state-opera/home1/listanvirg/Documents/IF_experiment_Results">>)

\* the folders that dataset_dir can hold, in the order listdir gives them
Listings ==
    {names \in UNION {[1..n -> SignalIds] : n \in 0..Cardinality(SignalIds)} :
        \A a, b \in 1..Len(names) : a < b => names[a] # names[b]}

\* Python's  a + b : concatenation of two str, TypeError for a str and an int
PyAdd(a, b) ==
    IF a.type = "str" /\ b.type = "str"
    THEN [raised |-> "", value |-> PyStr(a.v \o b.v)]
    ELSE IF a.type = "int" /\ b.type = "int"
    THEN [raised |-> "", value |-> PyInt(a.v + b.v)]
    ELSE [raised |-> "TypeError", value |-> a]

MainDims == <<Len(spectrogram_types), Len(freq_scales), Len(spec_normalizations),
              Len(optimization_metrics)>>

RECURSIVE NextTest(_, _)
NextTest(i, d) ==
    IF d = 0 THEN i
    ELSE IF i[d] < MainDims[d] THEN [i EXCEPT ![d] = i[d] + 1]
    ELSE NextTest([i EXCEPT ![d] = 1], d - 1)

LastTest(i) == \A d \in 1..4 : i[d] = MainDims[d]

\* the positional parameters of find_optimal_spec_IF_parameters (line 171)
\* and the arguments of the call of line 347
Parameters == <<"signal_path", "save_dir", "signal_id", "spectrogram_type",
                "freq_scale", "norm_type", "opt_metric">>

Arguments(sid, spec_type, scale, norm_type, metric) ==
    <<"pure_signal_path", sid, spec_type, scale, norm_type, metric>>

\* Python binds positional arguments to parameters and raises TypeError
\* when their numbers differ
Call(args) == IF Len(args) = Len(Parameters) THEN "" ELSE "TypeError"

MainInit ==
    /\ \E names \in Listings : dataset = [exists |-> TRUE, names |-> names]
       \/ dataset = [exists |-> FALSE, names |-> <<>>]
    /\ main_pc = "start"
    /\ main_idx = <<1, 1, 1, 1>>
    /\ Test_id = PyInt(0)
    /\ dirs = {}
    /\ tests = <<>>
    /\ calls = <<>>
    /\ main_result = [kind |-> "none", exc |-> "", line |-> 0, value |-> <<>>]
    /\ SweepRest
    /\ FunIdle
    /\ RidgeIdle
    /\ GuiIdle
    /\ SplitIdle
    /\ ZoomIdle

\* Lines 287-306: signals_list = os.listdir(dataset_dir), the option lists,
\* Test_id = 0.
Setup ==
    /\ main_pc = "start"
    /\ IF dataset.exists
       THEN /\ main_pc' = "loop"
            /\ main_result' = main_result
       ELSE /\ main_pc' = "exit"
            /\ main_result' = Raise("FileNotFoundError", 293)
    /\ Test_id' = PyInt(0)
    /\ UNCHANGED <<dataset, main_idx, dirs, tests, calls>>
    /\ UNCHANGED nonMainVars

\* Lines 320-348: one pass through the body of the innermost of the four
\* loops, that is one test: its directory, then the loop over the folders of
\* the dataset with the call of find_optimal_spec_IF_parameters.
RunTest ==
    /\ main_pc = "loop"
    /\ LET spec_type == spectrogram_types[main_idx[1]]
           scale == freq_scales[main_idx[2]]
           norm_type == spec_normalizations[main_idx[3]]
           opt_metric_ == optimization_metrics[main_idx[4]]
           prefix == PyAdd(main_results_dir, PyStr(<<"/Test">>))
           test_result_dir == PyAdd(prefix.value, Test_id)
       IN  IF test_result_dir.raised # ""
           THEN \* line 324
                /\ tests' = Append(tests, [id |-> Test_id, dir |-> <<>>])
                /\ main_result' = Raise(test_result_dir.raised, 324)
                /\ main_pc' = "exit"
                /\ UNCHANGED <<main_idx, dirs, calls>>
           ELSE /\ tests' = Append(tests, [id |-> Test_id, dir |-> test_result_dir.value.v])
                /\ IF dataset.names = <<>>
                   THEN \* no folder: the test is over
                        /\ dirs' = dirs \cup {test_result_dir.value.v}
                        /\ calls' = calls
                        /\ main_result' = main_result
                        /\ main_pc' = IF LastTest(main_idx) THEN "done" ELSE "loop"
                        /\ main_idx' = IF LastTest(main_idx) THEN main_idx
                                        ELSE NextTest(main_idx, 4)
                   ELSE \* lines 336-347 for the first folder
                        LET sid == dataset.names[1]
                            args == Arguments(sid, spec_type, scale, norm_type, opt_metric_)
                        IN  /\ dirs' = dirs \cup {test_result_dir.value.v,
                                                  test_result_dir.value.v \o <<"/", sid>>}
                            /\ calls' = Append(calls, [signal_id |-> sid,
                                                        opt_metric |-> opt_metric_,
                                                        raised |-> Call(args)])
                            /\ main_result' = Raise(Call(args), 347)
                            /\ main_pc' = "exit"
                            /\ main_idx' = main_idx
    /\ UNCHANGED <<dataset, Test_id>>
    /\ UNCHANGED nonMainVars

MainNext == Setup \/ RunTest

MainSpec == MainInit /\ [][MainNext]_vars

\* C17: in the main loop each test gets its own test id: a test that has
\* started has a result directory named after its id, and no two tests have
\* the same id or use the same result directory.
C17_EachTestHasItsOwnId ==
    /\ \A a \in 1..Len(tests) : tests[a].dir # <<>>
    /\ \A a, b \in 1..Len(tests) :
           a # b => tests[a].id # tests[b].id /\ tests[a].dir # tests[b].dir

\* C18: the parameter optimisation is never run with the Iatsenko metric on
\* pure_tone: the main loop skips every such combination, that is, when it
\* has ended, the folders of the dataset other than pure_tone have been
\* handed to find_optimal_spec_IF_parameters with 'Iatsenko' and pure_tone
\* has not.
C18_IatsenkoSkipsPureTone ==
    /\ \A c \in 1..Len(calls) :
           ~(calls[c].opt_metric = "Iatsenko" /\ calls[c].signal_id = "pure_tone")
    /\ (main_pc \in {"done", "exit"} /\ dataset.exists) =>
           \A k \in 1..Len(dataset.names) :
               dataset.names[k] # "pure_tone" =>
                   \E c \in 1..Len(calls) :
                       /\ calls[c].opt_metric = "Iatsenko"
                       /\ calls[c].signal_id = dataset.names[k]
                       /\ calls[c].raised = ""

\* ------------------------------------------------- the window of interface.py
\* self.incr of line 91
self_incr == 128

\* event.xdata of a click: a sample number in the amplitude plot a1, a column
\* number in the spectrogram plot a2, None outside the axes
PosA1 == {k * (self_incr \div 2) : k \in 0..MaxPos}
PosA2 == 0..MaxPos

Events ==
    [inaxes : {"a1"}, xdata : PosA1] \cup [inaxes : {"a2"}, xdata : PosA2]
        \cup {[inaxes |-> "none", xdata |-> -1]}

\* np.round(n / d): to the nearest integer, halves to the even one
RoundHalfEven(n, d) ==
    LET q == n \div d
        r == n % d
    IN  IF 2 * r < d THEN q
        ELSE IF 2 * r > d THEN q + 1
        ELSE IF q % 2 = 0 THEN q ELSE q + 1

\* pl.Rectangle((x, ...), width, ..., facecolor=...)
Rectangle(x, width, facecolor) == [x |-> x, width |-> width, facecolor |-> facecolor]

\* A plausible slip: the box selected before keeps its colour.
ResetColour_never(rects, id) == rects

\* Lines 299-301: the box selected last goes back to red
ResetColour(rects, id) ==
    IF id > -1 THEN [rects EXCEPT ![id + 1].facecolor = "red"] ELSE rects

\* Lines 320-321
SetGreen(rects, id) == [rects EXCEPT ![id + 1].facecolor = "green"]

\* xy[0] <= xdata and xy[0] + get_width() >= xdata
Inside(rect, x) == rect.x <= x /\ rect.x + rect.width >= x

\* Lines 309-314: the index of the last box whose a1 rectangle or whose a2
\* rectangle has event.xdata between its sides, -1 when there is none.  The
\* same xdata is tried on both rectangles, whichever plot was clicked; the
\* comparisons with the None of a click outside the axes are all False.
HitBox(rects1, rects2, event) ==
    LET hits == {c \in 1..Len(rects1) :
                    \/ Inside(rects1[c], event.xdata)
                    \/ Inside(rects2[c], event.xdata * self_incr)}
    IN  IF event.inaxes = "none" \/ hits = {} THEN -1
        ELSE (CHOOSE c \in hits : \A h \in hits : h <= c) - 1

\* A plausible slip: the two ends are stored as clicked.
NewSegment_as_clicked(start, s) == <<start, s, "None">>

\* Line 377: [min(self.start_a,s), max(self.start_a,s), 'None']
NewSegment(start, s) ==
    <<IF start < s THEN start ELSE s, IF start < s THEN s ELSE start, "None">>

\* Lines 221-222: the texts of the radio buttons
BirdLabels == {"Female Kiwi", "Male Kiwi", "Ruru", "Hihi", "Not Bird", "Don't Know", "Other"}

\* Lines 326-336: the button of the box's label is checked, the last one
\* ("Other") when no button has this text
CheckedFor(text) == IF text \in BirdLabels THEN text ELSE "Other"

\* Lines 496-515: the rectangles and the text that showPlot appends for
\* the segments
BoxesA1(segs) ==
    [i \in 1..Len(segs) |-> Rectangle(segs[i][1], segs[i][2] - segs[i][1], "r")]

BoxesA2(segs) ==
    [i \in 1..Len(segs) |-> Rectangle(segs[i][1], segs[i][2] - segs[i][1], "r")]

Texts(segs) ==
    [i \in 1..Len(segs) |-> [x |-> segs[i][1] + 500, text |-> segs[i][3]]]

\* Lines 628-630 and 462-463: json.dump(self.segments, file), json.load(file)
json_dump(segs) ==
    [i \in 1..Len(segs) |-> [start |-> segs[i][1], end |-> segs[i][2], label |-> segs[i][3]]]

json_load(text) ==
    [i \in 1..Len(text) |-> <<text[i].start, text[i].end, text[i].label>>]

\* a .data file left by an earlier session
SavedFiles ==
    {[exists |-> FALSE, text |-> <<>>],
     [exists |-> TRUE, text |-> json_dump(<<<<0, self_incr, "Ruru">>>>)]}

\* Lines 446-468: what loadFile(name) leaves in self.segments
Loaded(files, name) ==
    IF files[name].exists THEN json_load(files[name].text) ELSE <<>>

\* Lines 77-119: the window after __init__, which ends with
\* loadFile('ruru.wav')
GuiInit ==
    /\ Constructed
    /\ budget = [clicks |-> MaxClicks, loads |-> MaxLoads]
    /\ wav_files = [f \in FileNames |-> TRUE]
    /\ data_files \in [FileNames -> SavedFiles]
    /\ filename = "ruru.wav"
    /\ segments = Loaded(data_files, "ruru.wav")
    /\ listRectanglesa1 = BoxesA1(segments)
    /\ listRectanglesa2 = BoxesA2(segments)
    /\ a1text = Texts(segments)
    /\ SweepRest
    /\ FunIdle
    /\ RidgeIdle
    /\ MainIdle
    /\ SplitIdle
    /\ ZoomIdle

\* Lines 296-391
onClick ==
    /\ clicks < budget.clicks
    /\ clicks' = clicks + 1
    /\ \E event \in Events :
         LET reset1 == ResetColour(listRectanglesa1, boxid)
             reset2 == ResetColour(listRectanglesa2, boxid)
             hit == HitBox(reset1, reset2, event)
             s == IF event.inaxes = "a1" THEN event.xdata ELSE event.xdata * self_incr
             s2 == IF event.inaxes = "a1" THEN RoundHalfEven(event.xdata, self_incr)
                   ELSE event.xdata
         IN  /\ last' = [inaxes |-> event.inaxes, xdata |-> event.xdata, boxid |-> hit]
             /\ IF hit > -1
                THEN \* lines 316-339: the click is on a box
                     /\ boxid' = hit
                     /\ listRectanglesa1' = SetGreen(reset1, hit)
                     /\ listRectanglesa2' = SetGreen(reset2, hit)
                     /\ birds1' = [enabled |-> TRUE,
                                   checked |-> CheckedFor(a1text[hit + 1].text)]
                     /\ birdList' = [enabled |-> a1text[hit + 1].text \notin BirdLabels]
                     /\ UNCHANGED <<start_stop, start_a, start_s, segments, a1text,
                                    nSegClicks, nAdded>>
                ELSE /\ boxid' = boxid
                     /\ birds1' = [enabled |-> FALSE, checked |-> ""]
                     /\ birdList' = [enabled |-> FALSE]
                     /\ IF event.inaxes = "none"
                        THEN \* line 389
                             /\ listRectanglesa1' = reset1
                             /\ listRectanglesa2' = reset2
                             /\ UNCHANGED <<start_stop, start_a, start_s, segments,
                                            a1text, nSegClicks, nAdded>>
                        ELSE /\ nSegClicks' = nSegClicks + 1
                             /\ start_stop' = 1 - start_stop
                             /\ IF start_stop = 0
                                THEN \* lines 360-365: the start of a segment
                                     /\ start_a' = s
                                     /\ start_s' = s2
                                     /\ listRectanglesa1' = reset1
                                     /\ listRectanglesa2' = reset2
                                     /\ UNCHANGED <<segments, a1text, nAdded>>
                                ELSE \* lines 366-384: the end, the box is made
                                     /\ listRectanglesa1' =
                                            Append(reset1, Rectangle(start_a, s - start_a, "r"))
                                     /\ listRectanglesa2' =
                                            Append(reset2,
                                                   Rectangle(start_s * self_incr,
                                                             (s2 - start_s) * self_incr, "r"))
                                     /\ segments' = Append(segments, NewSegment(start_a, s))
                                     /\ a1text' = Append(a1text, [x |-> start_a, text |-> "None"])
                                     /\ nAdded' = nAdded + 1
                                     /\ UNCHANGED <<start_a, start_s>>
    /\ UNCHANGED <<filename, data_files, loads, budget, wav_files, last_load, kept>>
    /\ UNCHANGED nonGuiVars

\* A plausible slip: the list is cleared before it is saved.
saveSegments_cleared(files, name, segs) == files

\* Lines 447-448 with saveSegments (628-630): a list that is not empty is
\* written to the .data file of the file shown
saveSegments(files, name, segs) ==
    IF Len(segs) > 0
    THEN [files EXCEPT ![name] = [exists |-> TRUE, text |-> json_dump(segs)]]
    ELSE files

\* Lines 446-468 with showPlot (479-521).  When wavfile.read raises (line
\* 451) the list has been saved and cleared, and nothing else is done; the
\* window goes on with the next event.
loadFile ==
    /\ loads < budget.loads
    /\ loads' = loads + 1
    /\ kept' = IF Len(segments) > 0 THEN [kept EXCEPT ![filename] = segments] ELSE kept
    /\ \E name \in FileNames :
         LET files == saveSegments(data_files, filename, segments)
             segs == Loaded(files, name)
         IN  /\ data_files' = files
             /\ last_load' = [n |-> last_load.n + 1, name |-> name]
             /\ IF wav_files[name]
                THEN /\ filename' = name
                     /\ segments' = segs
                     /\ listRectanglesa1' = listRectanglesa1 \o BoxesA1(segs)
                     /\ listRectanglesa2' = listRectanglesa2 \o BoxesA2(segs)
                     /\ a1text' = a1text \o Texts(segs)
                ELSE /\ segments' = <<>>
                     /\ UNCHANGED <<filename, listRectanglesa1, listRectanglesa2, a1text>>
    /\ UNCHANGED <<start_stop, start_a, start_s, boxid, birds1, birdList, clicks, last,
                   nSegClicks, nAdded, budget, wav_files>>
    /\ UNCHANGED nonGuiVars

\* Lines 429-435: the sound is denoised and showPlot draws everything again
denoise ==
    /\ loads < budget.loads
    /\ loads' = loads + 1
    /\ listRectanglesa1' = listRectanglesa1 \o BoxesA1(segments)
    /\ listRectanglesa2' = listRectanglesa2 \o BoxesA2(segments)
    /\ a1text' = a1text \o Texts(segments)
    /\ UNCHANGED <<start_stop, start_a, start_s, segments, boxid, birds1, birdList,
                   filename, data_files, clicks, last, nSegClicks, nAdded, budget,
                   wav_files, last_load, kept>>
    /\ UNCHANGED nonGuiVars

GuiNext == onClick \/ loadFile \/ denoise

GuiSpec == GuiInit /\ [][GuiNext]_vars

\* A session of file switches.  'ruru.wav' has been read by __init__ (line
\* 119); the other sound file may be one that wavfile.read cannot read.
SwitchInit ==
    /\ Constructed
    /\ budget = [clicks |-> MaxSwitchClicks, loads |-> MaxSwitches]
    /\ wav_files \in {w \in [FileNames -> BOOLEAN] : w["ruru.wav"]}
    /\ data_files \in [FileNames -> SavedFiles]
    /\ filename = "ruru.wav"
    /\ segments = Loaded(data_files, "ruru.wav")
    /\ listRectanglesa1 = BoxesA1(segments)
    /\ listRectanglesa2 = BoxesA2(segments)
    /\ a1text = Texts(segments)
    /\ SweepRest
    /\ FunIdle
    /\ RidgeIdle
    /\ MainIdle
    /\ SplitIdle
    /\ ZoomIdle

SwitchSpec == SwitchInit /\ [][GuiNext]_vars

\* a click inside the axes that lands in no box is being handled
SegmentingClick ==
    clicks' = clicks + 1 /\ last'.inaxes # "none" /\ last'.boxid = -1

\* the sample that a click stands for in the amplitude plot
SampleOf(event) ==
    IF event.inaxes = "a1" THEN event.xdata ELSE event.xdata * self_incr

Green(rects) == {i \in 1..Len(rects) : rects[i].facecolor = "green"}

LoadFileCall == last_load'.n = last_load.n + 1

lengthwanted == sampleRate * 60 * 5

\* self.audiodata[from:to]: the samples from..to-1 that the recording has
Slice(from, to) ==
    [from |-> IF from < nsamples THEN from ELSE nsamples,
     to |-> IF to < nsamples THEN to ELSE nsamples]

\* A plausible slip: a recording that ends on a chunk boundary gets one more
\* turn of the loop.
MoreChunks_inclusive == (count + 1) * lengthwanted <= nsamples

\* Line 643: while (count + 1) * lengthwanted < nsamples
MoreChunks == (count + 1) * lengthwanted < nsamples

\* Lines 645-646 and 649-650: the data goes to the file
\* name[:-4] + '_' + str(count) + name[-4:]
WavWrite(data) == Append(chunks, [number |-> count, from |-> data.from, to |-> data.to])

\* Lines 639-642: the recording has been read, no chunk is written yet
SplitInit ==
    /\ sampleRate \in 1..MaxRate
    /\ nsamples \in 0..MaxSamples
    /\ count = 0
    /\ chunks = <<>>
    /\ split_pc = "loop"
    /\ SweepRest
    /\ FunIdle
    /\ RidgeIdle
    /\ MainIdle
    /\ GuiIdle
    /\ ZoomIdle

\* Lines 643-647: one turn of the loop
WriteChunk ==
    /\ split_pc = "loop"
    /\ MoreChunks
    /\ chunks' = WavWrite(Slice(count * lengthwanted, (count + 1) * lengthwanted))
    /\ count' = count + 1
    /\ UNCHANGED <<sampleRate, nsamples, split_pc>>
    /\ UNCHANGED nonSplitVars

\* Lines 648-650: the rest of the recording
WriteRest ==
    /\ split_pc = "loop"
    /\ ~MoreChunks
    /\ chunks' = WavWrite(Slice(count * lengthwanted, nsamples))
    /\ split_pc' = "done"
    /\ UNCHANGED <<sampleRate, nsamples, count>>
    /\ UNCHANGED nonSplitVars

SplitNext == WriteChunk \/ WriteRest

SplitSpec == SplitInit /\ [][SplitNext]_vars

\* number of samples in a chunk
ChunkLen(c) == c.to - c.from

\* C22: splitFile5mins cuts a recording of n > 0 samples into consecutive
\* chunks of L = sampleRate*60*5 samples: the chunks written start at sample
\* 0, each starts where the one before ends, they are numbered 0, 1, 2, ...
\* in order, every chunk written by the loop has exactly L samples, and when
\* the function is done the last chunk ends at sample n and has between 1
\* and L samples.
C22_SplitPartitionsRecording ==
    nsamples > 0 =>
        /\ \A i \in 1..Len(chunks) :
               /\ chunks[i].number = i - 1
               /\ chunks[i].from = (IF i = 1 THEN 0 ELSE chunks[i - 1].to)
               /\ chunks[i].from <= chunks[i].to
               /\ chunks[i].to <= nsamples
               /\ (i < Len(chunks) \/ split_pc = "loop") =>
                      ChunkLen(chunks[i]) = sampleRate * 300
        /\ split_pc = "done" =>
               /\ Len(chunks) >= 1
               /\ chunks[Len(chunks)].to = nsamples
               /\ ChunkLen(chunks[Len(chunks)]) \in 1..(sampleRate * 300)

\* a recording of exactly three chunk lengths has been split
C22_Witness ==
    /\ split_pc = "done"
    /\ nsamples = 3 * lengthwanted
    /\ Len(chunks) = 3
    /\ ChunkLen(chunks[3]) = lengthwanted

\* ------------------------------------------------------- the zoom window
\* Lines 532-533: the samples shown, of a recording that goes on for more
\* than 500 samples after the segment
ZoomFrom(zoomstart) == IF zoomstart - 500 > 0 THEN zoomstart - 500 ELSE 0
ZoomTo(zoomend) == zoomend + 500

\* Lines 545-556: the four end markers that showPlotZoom draws, the x of End2
\* and End4 in spectrogram columns (the integer division of Python 2)
showPlotZoom(zoomstart, zoomend) ==
    LET span == ZoomTo(zoomend) - ZoomFrom(zoomstart)
    IN  [m \in Markers |->
            [x |-> CASE m = "End1" -> 500
                     [] m = "End2" -> 500 \div self_incr
                     [] m = "End3" -> span
                     [] m = "End4" -> span \div self_incr,
             facecolor |-> IF m \in {"End1", "End2"} THEN "r" ELSE "g",
             drawn |-> TRUE]]

\* what the handlers read and write
ZoomState ==
    [Boxx |-> Boxx, Boxxcol |-> Boxxcol, markers |-> markers, handlers |-> handlers,
     buttonID |-> buttonID, keypress |-> keypress, next_cid |-> next_cid,
     ran |-> <<>>, raised |-> 0]

\* canvas2.mpl_connect(signal, fn) and canvas2.mpl_disconnect(cid)
mpl_connect(hs, cid, signal, fn) == Append(hs, [cid |-> cid, signal |-> signal, fn |-> fn])
mpl_disconnect(hs, cid) == SelectSeq(hs, LAMBDA h : h.cid # cid)

\* the callbacks connected to a signal
Connected(hs, signal) == SelectSeq(hs, LAMBDA h : h.signal = signal)

\* Lines 396-402
chooseEnd(z, artist) ==
    [z EXCEPT !.Boxx = artist,
              !.Boxxcol = z.markers[artist].facecolor,
              !.markers[artist].facecolor = "black",
              !.handlers = mpl_connect(mpl_connect(z.handlers, z.next_cid,
                                                   "button_press_event", "moveEnd"),
                                       z.next_cid + 1, "key_press_event", "deleteEnd"),
              !.buttonID = z.next_cid,
              !.keypress = z.next_cid + 1,
              !.next_cid = z.next_cid + 2,
              !.ran = Append(z.ran, [fn |-> "chooseEnd", Boxx |-> z.Boxx])]

\* Lines 404-413
moveEnd(z, event) ==
    LET y == [z EXCEPT !.ran = Append(z.ran, [fn |-> "moveEnd", Boxx |-> z.Boxx])]
    IN  IF z.Boxx = "None" THEN y
        ELSE IF event.inaxes
        THEN [y EXCEPT !.markers[z.Boxx].x = event.xdata,
                       !.markers[z.Boxx].facecolor = z.Boxxcol,
                       !.Boxx = "None",
                       !.handlers = mpl_disconnect(z.handlers, z.buttonID)]
        ELSE y

\* Lines 415-427.  set_x on None raises AttributeError (lines 418, 420);
\* remove() raises on an artist that has been removed before (lines 423, 426).
deleteEnd(z, event) ==
    LET y == [z EXCEPT !.ran = Append(z.ran, [fn |-> "deleteEnd", Boxx |-> z.Boxx])]
    IN  CASE event.key = "left" ->
               IF z.Boxx = "None" THEN [y EXCEPT !.raised = 418]
               ELSE [y EXCEPT !.markers[z.Boxx].x = z.markers[z.Boxx].x - 100]
          [] event.key = "right" ->
               IF z.Boxx = "None" THEN [y EXCEPT !.raised = 420]
               ELSE [y EXCEPT !.markers[z.Boxx].x = z.markers[z.Boxx].x + 100]
          [] event.key = "backspace" ->
               IF ~z.markers["End1"].drawn THEN [y EXCEPT !.raised = 423]
               ELSE [y EXCEPT !.markers["End1"].drawn = FALSE,
                              !.markers["End2"].drawn = FALSE,
                              !.markers["End3"].drawn = FALSE,
                              !.raised = 426]
          [] OTHER -> y

\* The canvas calls the callbacks that were connected to the signal when the
\* event came, in the order of their connection; one that raises ends the
\* event.
RECURSIVE RunHandlers(_, _, _)
RunHandlers(z, hs, event) ==
    IF hs = <<>> \/ z.raised # 0 THEN z
    ELSE RunHandlers(IF Head(hs).fn = "moveEnd" THEN moveEnd(z, event)
                     ELSE deleteEnd(z, event),
                     Tail(hs), event)

\* the handlers have run
Handled(z) ==
    /\ zoom_events' = zoom_events + 1
    /\ Boxx' = z.Boxx
    /\ Boxxcol' = z.Boxxcol
    /\ markers' = z.markers
    /\ handlers' = z.handlers
    /\ buttonID' = z.buttonID
    /\ keypress' = z.keypress
    /\ next_cid' = z.next_cid
    /\ ran' = z.ran
    /\ zoom_raised' = z.raised
    /\ UNCHANGED nonZoomVars

\* the mouse presses: on an end marker that is drawn, elsewhere inside the
\* axes, or outside the axes
Presses ==
    {[marker |-> m, inaxes |-> TRUE, xdata |-> markers[m].x] :
         m \in {k \in Markers : markers[k].drawn}}
      \cup [marker : {"none"}, inaxes : {TRUE}, xdata : {100 * k : k \in 0..MaxZoomPos}]
      \cup {[marker |-> "none", inaxes |-> FALSE, xdata |-> -1]}

Keys == {"left", "right", "backspace", "a"}

\* Lines 87 and 265, and showPlotZoom for the segment [0, incr]: a segment
\* is shown in the zoom window and no marker has been picked
ZoomInit ==
    /\ Boxx = "None"
    /\ Boxxcol = ""
    /\ markers = showPlotZoom(0, self_incr)
    /\ handlers = <<[cid |-> 1, signal |-> "pick_event", fn |-> "chooseEnd"]>>
    /\ buttonID = 0
    /\ keypress = 0
    /\ next_cid = 2
    /\ ran = <<>>
    /\ zoom_raised = 0
    /\ zoom_events = 0
    /\ SweepRest
    /\ FunIdle
    /\ RidgeIdle
    /\ MainIdle
    /\ GuiIdle
    /\ SplitIdle

\* A mouse press in canvas2.  A press on a marker is a pick (line 265):
\* chooseEnd runs first, then the press goes to the moveEnd callbacks that
\* were connected before it.
MousePress ==
    /\ zoom_events < MaxZoomEvents
    /\ \E event \in Presses :
         LET picked == IF event.marker # "none"
                       THEN chooseEnd(ZoomState, event.marker)
                       ELSE ZoomState
         IN  Handled(RunHandlers(picked, Connected(handlers, "button_press_event"), event))

\* A key press in canvas2
KeyPress ==
    /\ zoom_events < MaxZoomEvents
    /\ \E key \in Keys :
         Handled(RunHandlers(ZoomState, Connected(handlers, "key_press_event"),
                             [key |-> key]))

ZoomNext == MousePress \/ KeyPress

ZoomSpec == ZoomInit /\ [][ZoomNext]_vars

\* C23: the handlers that chooseEnd installs are connected only while an end
\* marker is selected, at most one click handler and one key handler are
\* connected at any time, and deleteEnd never runs while no marker is
\* selected.
C23_HandlersOnlyWhileSelected ==
    /\ Boxx = "None" =>
           /\ Connected(handlers, "button_press_event") = <<>>
           /\ Connected(handlers, "key_press_event") = <<>>
    /\ Len(Connected(handlers, "button_press_event")) <= 1
    /\ Len(Connected(handlers, "key_press_event")) <= 1
    /\ \A i \in 1..Len(ran) : ran[i].fn = "deleteEnd" => ran[i].Boxx # "None"

\* ------------------------------------------------- the lists of the window
\* the two sides of a rectangle
Sides(rect) == {rect.x, rect.x + rect.width}

\* C24: after any sequence of file loads, denoisings and clicks the lists
\* segments, listRectanglesa1, listRectanglesa2 and a1text have the same
\* length, and at each index the amplitude box spans the segment and the
\* text is the segment's label.
C24_ListsStayAligned ==
    /\ Len(listRectanglesa1) = Len(segments)
    /\ Len(listRectanglesa2) = Len(segments)
    /\ Len(a1text) = Len(segments)
    /\ \A i \in 1..Len(segments) :
           /\ Sides(listRectanglesa1[i]) = {segments[i][1], segments[i][2]}
           /\ a1text[i].text = segments[i][3]

====
